---- MODULE Spec2Model ----
(***************************************************************************)
(* Model of the caption-editor API server's transcription router           *)
(* (packages/api-server/src/caption_editor_api/routers/captions.py):       *)
(*   - the two module-level stores video_files and transcription_jobs,     *)
(*   - the handlers upload_video, transcribe_video (submit) and            *)
(*     get_transcription_result (poll),                                    *)
(*   - the word-to-segment grouping loop of get_transcription_result.      *)
(* The transcription provider (AssemblyAI) is an external collaborator:    *)
(* its per-job answer is the variable provider, which changes on its own.  *)
(***************************************************************************)
EXTENDS Integers, Sequences, FiniteSets, TLC

VARIABLES
    video_files,         \* captions.py:20   video id -> stored file path
    transcription_jobs,  \* captions.py:18   job id -> job record
    provider,            \* the provider's current answer for each submitted job
    response,            \* what the last handler call returned or raised
    lastOp,              \* which handler ran last, on which input
    segmenterRuns,       \* per job: how often the grouping code has run (saturating)
    words,               \* input of the stand-alone segmenter run
    segments,            \* output of the stand-alone segmenter run
    segDone,             \* whether the stand-alone segmenter run has happened
    cached_jobs,         \* registry of the poll that short-circuits (spec, section 9)
    cached_response,     \* what the short-circuiting poll returned last
    pending_polls        \* polls between their provider query and their write

vars == <<video_files, transcription_jobs, provider, response, lastOp,
          segmenterRuns, words, segments, segDone, cached_jobs,
          cached_response, pending_polls>>

registryVars == <<video_files, transcription_jobs, provider, response, lastOp,
                  segmenterRuns>>

segVars == <<words, segments, segDone>>

cachedVars == <<cached_jobs, cached_response>>

auxVars == <<cached_jobs, cached_response, pending_polls>>

----------------------------------------------------------------------------
(* Bounds of the model *)

\* longest word sequence handed to the stand-alone segmenter run
MaxWords == 2

\* word times range over the whole seconds 0 .. MaxSecond
MaxSecond == 6

\* segmenterRuns counts up to this value and then stays
MaxRunsCounted == 2

----------------------------------------------------------------------------
(* Values *)

None == "None"

\* segment_start_time = None (it is compared with numbers in the model)
NoStart == -1

\* word.start / 1000.0
MsPerSecond == 1000

\* segment_duration >= 5.0
SegmentMaxSeconds == 5

JobIds == {"j1", "j2"}

VideoIds == {"video_1"}

UnknownVideoId == "video_9"

VideoUrl == "http://host/v.mp4"

----------------------------------------------------------------------------
(* Words and texts.  A text is a sequence of one-character strings.  Word   *)
(* times are integer milliseconds; the model draws them from whole seconds, *)
(* for which the float division x / 1000.0 of the code is exact and equals  *)
(* the integer quotient.                                                    *)

Texts == { <<"o", "k">>, <<"n", "o", "!">>, <<".", "a">> }

Seconds == 0 .. MaxSecond

\* a provider word: text, start and end in milliseconds, start <= end
Words ==
    { [text |-> t, start |-> s * MsPerSecond, end |-> e * MsPerSecond] :
        <<t, s, e>> \in { q \in Texts \X Seconds \X Seconds : q[2] <= q[3] } }

\* a word may follow the sequence ws: start times are non-decreasing
MayFollow(ws, word) ==
    IF Len(ws) = 0 THEN TRUE ELSE ws[Len(ws)].start <= word.start

----------------------------------------------------------------------------
(* The grouping loop of get_transcription_result, captions.py:206-238 *)

\* x / 1000.0  (captions.py:216, 222, 230)
ToSeconds(ms) == ms \div MsPerSecond

\* str.endswith(('.', '!', '?'))
EndsWithAny(text, chars) == Len(text) > 0 /\ text[Len(text)] \in chars

\* " ".join(texts)
RECURSIVE JoinWithSpace(_)
JoinWithSpace(texts) ==
    IF Len(texts) = 0 THEN <<>>
    ELSE IF Len(texts) = 1 THEN texts[1]
    ELSE texts[1] \o <<" ">> \o JoinWithSpace(Tail(texts))

CaptionSegment(id, start_time, end_time, text) ==
    [id |-> id, start_time |-> start_time, end_time |-> end_time, text |-> text]

\* the test is "contains" instead of "ends with"
is_end_of_sentence_Contains(word) ==
    \E n \in 1 .. Len(word.text) : word.text[n] \in {".", "!", "?"}

\* captions.py:221
is_end_of_sentence(word) == EndsWithAny(word.text, {".", "!", "?"})

\* captions.py:222
segment_duration(word, segment_start_time) ==
    ToSeconds(word.end) - segment_start_time

\* the duration test is missing
should_end_segment_NoDuration(word, segment_start_time) ==
    is_end_of_sentence(word)

\* captions.py:223
should_end_segment(word, segment_start_time) ==
    is_end_of_sentence(word)
    \/ segment_duration(word, segment_start_time) >= SegmentMaxSeconds

\* the forced close on the last word is missing
is_last_word_Never(word, ws) == FALSE

\* captions.py:225, the second disjunct: word == current_transcript.words[-1]
\* compares the two words by value
is_last_word(word, ws) == word = ws[Len(ws)]

\* the start is taken from the word's end
current_start_FromEnd(word, segment_start_time) ==
    IF segment_start_time = NoStart THEN ToSeconds(word.end)
    ELSE segment_start_time

\* captions.py:215-216
current_start(word, segment_start_time) ==
    IF segment_start_time = NoStart THEN ToSeconds(word.start)
    ELSE segment_start_time

\* the end is written as the duration of the segment
segment_end_time_Duration(word, segment_start_time) ==
    ToSeconds(word.end) - segment_start_time

\* captions.py:230: end_time=word.end / 1000.0
segment_end_time(word, segment_start_time) == ToSeconds(word.end)

\* the reset of the start is missing
StartAfterClose_Kept(segment_start_time) == segment_start_time

\* captions.py:238: segment_start_time = None
StartAfterClose(segment_start_time) == NoStart

\* One pass of the for loop from position i on.  Each emitted group holds the
\* CaptionSegment of the code and, as bookkeeping, the positions of its first
\* and last word.
RECURSIVE GroupWords(_, _, _, _, _, _, _)
GroupWords(ws, i, first, current_segment_words, segment_start_time, segment_id, groups) ==
    IF i > Len(ws) THEN groups
    ELSE
      LET word  == ws[i]
          start == current_start(word, segment_start_time)
          cur   == Append(current_segment_words, word.text)
      IN  IF should_end_segment(word, start) \/ is_last_word(word, ws)
          THEN GroupWords(ws, i + 1, i + 1, <<>>, StartAfterClose(start),
                 segment_id + 1,
                 Append(groups,
                   [first |-> first, last |-> i,
                    segment |-> CaptionSegment(ToString(segment_id), start,
                                  segment_end_time(word, start),
                                  JoinWithSpace(cur))]))
          ELSE GroupWords(ws, i + 1, first, cur, start, segment_id, groups)

\* captions.py:206-212
Groups(ws) ==
    IF Len(ws) > 0 THEN GroupWords(ws, 1, 1, <<>>, NoStart, 1, <<>>) ELSE <<>>

\* the list segments of captions.py:206-238
segment(ws) == [k \in 1 .. Len(Groups(ws)) |-> Groups(ws)[k].segment]

----------------------------------------------------------------------------
(* Inputs of the handlers *)

\* an uploaded file's name as os.path.splitext splits it; EmptyFilename is a
\* missing or empty filename
EmptyFilename == [stem |-> "", ext |-> ""]

Filenames ==
    { EmptyFilename,
      [stem |-> "clip", ext |-> ".mp4"],
      [stem |-> "CLIP", ext |-> ".MOV"],
      [stem |-> "notes", ext |-> ".txt"] }

\* str.lower() on the extensions above
Lower(ext) == IF ext = ".MOV" THEN ".mov" ELSE ext

\* captions.py:75
supported_extensions == {".mp4", ".mov", ".m4v"}

\* Python truthiness of an Optional[str]
Truthy(x) == x /= None /\ x /= ""

\* TranscriptionRequest, captions.py:40-45
Requests ==
    [video_id  : {None, ""} \cup VideoIds \cup {UnknownVideoId},
     video_url : {None, VideoUrl},
     language  : {None}]

\* job identifiers a client may poll: every provider identifier and one that
\* the provider never assigns
PollIds == JobIds \cup {"j9"}

\* the word lists the provider returns in this model of the job lifecycle
PollWords ==
    { <<>>,
      << [text |-> <<"o", "k">>, start |-> 0, end |-> MsPerSecond],
         [text |-> <<"n", "o", "!">>, start |-> MsPerSecond,
          end |-> 2 * MsPerSecond],
         [text |-> <<"o", "k">>, start |-> 2 * MsPerSecond,
          end |-> 3 * MsPerSecond] >> }

\* aai.TranscriptStatus and what the provider can answer for a job
ProviderAnswers ==
    { [status |-> s, words |-> <<>>] : s \in {"queued", "processing", "error"} }
    \cup { [status |-> "completed", words |-> w] : w \in PollWords }

----------------------------------------------------------------------------
(* Responses.  code is the HTTP status: 200 for a returned response model,  *)
(* otherwise the status_code of the HTTPException that left the handler.    *)

Response(code, status, job_id, captions, message) ==
    [code |-> code, status |-> status, job_id |-> job_id,
     captions |-> captions, message |-> message]

\* captions=None
NoCaptions ==
    [present |-> FALSE, segments |-> <<>>, language |-> "", format |-> ""]

\* CaptionFile(segments=segments), captions.py:32-37
CaptionFile(segs) ==
    [present |-> TRUE, segments |-> segs, language |-> "en", format |-> "vtt"]

Op(op, arg, answer) == [op |-> op, arg |-> arg, answer |-> answer]

NoArg == <<>>

EmptyMap == [x \in {} |-> None]

----------------------------------------------------------------------------
(* State after import of the module, captions.py:18-20 *)

RegistryInit ==
    /\ video_files = EmptyMap
    /\ transcription_jobs = EmptyMap
    /\ provider = EmptyMap
    /\ response = Response(0, None, None, NoCaptions, "")
    /\ lastOp = Op("none", NoArg, "none")
    /\ segmenterRuns = [j \in JobIds |-> 0]

AuxInit ==
    /\ cached_jobs = EmptyMap
    /\ cached_response = Response(0, None, None, NoCaptions, "")
    /\ pending_polls = EmptyMap

Init ==
    /\ RegistryInit
    /\ AuxInit
    /\ words = <<>>
    /\ segments = <<>>
    /\ segDone = FALSE

----------------------------------------------------------------------------
(* upload_video, captions.py:67-103 *)

\* captions.py:71-81: the checks that raise HTTPException(400)
UploadRejected(filename) ==
    \/ filename = EmptyFilename
    \/ Lower(filename.ext) \notin supported_extensions

\* captions.py:84-88: the temporary file's path
TempPath(video_id) == <<"tmp", video_id>>

upload_video(filename) ==
    /\ IF UploadRejected(filename)
       THEN /\ response' = Response(400, None, None, NoCaptions, "upload rejected")
            /\ lastOp' = Op("upload", filename, "none")
            /\ UNCHANGED video_files
       ELSE \E video_id \in VideoIds \ DOMAIN video_files :
            /\ video_files' = (video_id :> TempPath(video_id)) @@ video_files
            /\ response' = Response(200, None, None, NoCaptions, video_id)
            /\ lastOp' = Op("upload", filename, "none")
    /\ UNCHANGED <<transcription_jobs, provider, segmenterRuns, segVars>>

----------------------------------------------------------------------------
(* transcribe_video (submit), captions.py:129-184 *)

\* the check written as "is None": an empty string passes as a source
SubmitNoSource_IsNone(request) ==
    request.video_id = None /\ request.video_url = None

\* captions.py:132
SubmitNoSource(request) ==
    ~Truthy(request.video_id) /\ ~Truthy(request.video_url)

\* captions.py:142-148: the uploaded video is looked up and is missing
SubmitVideoMissing(request) ==
    Truthy(request.video_id) /\ request.video_id \notin DOMAIN video_files

\* raise HTTPException(status_code=..., detail=...)
HTTPException(status_code, detail) ==
    [status_code |-> status_code, detail |-> detail]

\* captions.py:145-148, raised inside the try block of captions.py:138
VideoNotFound == HTTPException(404, "Video ID not found")

\* captions.py:180-184: except Exception as e catches whatever the try block
\* raised, an HTTPException included, and raises HTTPException(500)
SubmitExcept(e) == HTTPException(500, "Failed to start transcription")

\* captions.py:167-172
NewJob(job_id, request) ==
    [transcript   |-> job_id,
     status       |-> "processing",
     video_source |-> IF Truthy(request.video_id) THEN request.video_id
                      ELSE request.video_url,
     language     |-> IF Truthy(request.language) THEN request.language
                      ELSE "en"]

\* the store is assigned anew instead of the key
JobsAfterSubmit_Replaces(jobs, job_id, request) ==
    (job_id :> NewJob(job_id, request))

\* captions.py:167: transcription_jobs[job_id] = {...}
JobsAfterSubmit(jobs, job_id, request) ==
    (job_id :> NewJob(job_id, request)) @@ jobs

\* the HTTPException e leaves the handler
SubmitFails(request, e, answer) ==
    /\ response' = Response(e.status_code, None, None, NoCaptions, e.detail)
    /\ lastOp' = Op("submit", request, answer)
    /\ UNCHANGED <<video_files, transcription_jobs, provider, segmenterRuns,
                   segVars>>

\* transcriber.submit raised: captions.py:163, 180-184
SubmitProviderRaises(request) ==
    SubmitFails(request, SubmitExcept("provider exception"), "raised")

\* transcriber.submit returned a transcript with a new identifier:
\* captions.py:163-178
SubmitAccepted(request) ==
    \E job_id \in JobIds \ DOMAIN provider :
    \E first \in ProviderAnswers :
        /\ first.status = "queued"
        /\ provider' = (job_id :> first) @@ provider
        /\ transcription_jobs' =
               JobsAfterSubmit(transcription_jobs, job_id, request)
        /\ response' = Response(200, "processing", job_id, NoCaptions,
                                "Transcription started")
        /\ lastOp' = Op("submit", request, job_id)
        /\ UNCHANGED <<video_files, segmenterRuns, segVars>>

transcribe_video(request) ==
    IF SubmitNoSource(request)
    THEN SubmitFails(request,
                     HTTPException(400, "video_id or video_url is required"),
                     "none")
    ELSE IF SubmitVideoMissing(request)
    THEN SubmitFails(request, SubmitExcept(VideoNotFound), "none")
    ELSE \/ SubmitProviderRaises(request)
         \/ SubmitAccepted(request)

----------------------------------------------------------------------------
(* get_transcription_result (poll), captions.py:187-273 *)

\* captions.py:190
PollUnknown(job_id) == job_id \notin DOMAIN transcription_jobs

\* the else branch writes the status "processing" into the registry
StoredStatusAfterPoll_StoresProcessing(stored, answer) ==
    IF answer.status = "completed" THEN "completed"
    ELSE IF answer.status = "error" THEN "error"
    ELSE "processing"

\* the error branch forgets to update the registry
StoredStatusAfterPoll_SkipsError(stored, answer) ==
    IF answer.status = "completed" THEN "completed" ELSE stored

\* captions.py:241 and 252: the status the poll stores for the provider's
\* answer; the else branch, captions.py:260-266, stores nothing
StoredStatusAfterPoll(stored, answer) ==
    IF answer.status = "completed" THEN "completed"
    ELSE IF answer.status = "error" THEN "error"
    ELSE stored

\* the registry after a poll of job_id that got answer from the provider
JobsAfterPoll(jobs, job_id, answer) ==
    [jobs EXCEPT ![job_id].status =
        StoredStatusAfterPoll(jobs[job_id].status, answer)]

\* captions.py:204-248: the grouping code runs in the completed branch only
RunsSegmenter(answer) == answer.status = "completed"

\* captions.py:243-266: the response for the provider's answer
PollResponse(job_id, answer) ==
    IF answer.status = "completed"
    THEN Response(200, "completed", job_id, CaptionFile(segment(answer.words)),
                  "Transcription completed successfully")
    ELSE IF answer.status = "error"
    THEN Response(200, "error", job_id, NoCaptions, "Transcription failed")
    ELSE Response(200, "processing", job_id, NoCaptions,
                  "Transcription is still in progress")

\* the handler re-raises as transcribe_video does
PollExcept_Propagates(job_id) ==
    Response(500, None, None, NoCaptions, "Error checking transcription status")

\* captions.py:268-273: except Exception as e returns a response
PollExcept(job_id) ==
    Response(200, "error", job_id, NoCaptions,
             "Error checking transcription status")

CountRun(n) == IF n < MaxRunsCounted THEN n + 1 ELSE n

\* an unknown job is reported as still processing
PollNotFound_Processing(job_id) ==
    /\ job_id \notin DOMAIN transcription_jobs
    /\ response' = Response(200, "processing", job_id, NoCaptions,
                            "Transcription is still in progress")
    /\ lastOp' = Op("poll", job_id, "none")
    /\ UNCHANGED <<video_files, transcription_jobs, provider, segmenterRuns,
                   segVars>>

\* captions.py:190-194
PollNotFound(job_id) ==
    /\ PollUnknown(job_id)
    /\ response' = Response(404, None, None, NoCaptions,
                            "Transcription job not found")
    /\ lastOp' = Op("poll", job_id, "none")
    /\ UNCHANGED <<video_files, transcription_jobs, provider, segmenterRuns,
                   segVars>>

\* the except clause also stores the status error
PollProviderRaises_StoresError(job_id) ==
    /\ job_id \in DOMAIN transcription_jobs
    /\ transcription_jobs' =
           [transcription_jobs EXCEPT ![job_id].status = "error"]
    /\ response' = PollExcept(job_id)
    /\ lastOp' = Op("poll", job_id, "raised")
    /\ UNCHANGED <<video_files, provider, segmenterRuns, segVars>>

\* aai.Transcript.get_by_id raised: captions.py:202, 268-273
PollProviderRaises(job_id) ==
    /\ ~PollUnknown(job_id)
    /\ response' = PollExcept(job_id)
    /\ lastOp' = Op("poll", job_id, "raised")
    /\ UNCHANGED <<video_files, transcription_jobs, provider, segmenterRuns,
                   segVars>>

\* captions.py:204-266: the branches on the status of current_transcript
PollBranches(job_id, answer) ==
    /\ transcription_jobs' =
           JobsAfterPoll(transcription_jobs, job_id, answer)
    /\ response' = PollResponse(job_id, answer)
    /\ lastOp' = Op("poll", job_id, answer.status)
    /\ segmenterRuns' =
           IF RunsSegmenter(answer)
           THEN [segmenterRuns EXCEPT ![job_id] = CountRun(@)]
           ELSE segmenterRuns

\* aai.Transcript.get_by_id returned the provider's current answer:
\* captions.py:202-266
PollAnswered(job_id) ==
    /\ ~PollUnknown(job_id)
    /\ PollBranches(job_id, provider[job_id])
    /\ UNCHANGED <<video_files, provider, segVars>>

get_transcription_result(job_id) ==
    \/ PollNotFound(job_id)
    \/ PollProviderRaises(job_id)
    \/ PollAnswered(job_id)

----------------------------------------------------------------------------
(* The provider works on a submitted job: its answer changes *)

ProviderStep(job_id) ==
    /\ job_id \in DOMAIN provider
    /\ \E answer \in ProviderAnswers \ {provider[job_id]} :
           provider' = [provider EXCEPT ![job_id] = answer]
    /\ lastOp' = Op("provider", job_id, "none")
    /\ UNCHANGED <<video_files, transcription_jobs, response, segmenterRuns,
                   segVars>>

----------------------------------------------------------------------------
(* The job lifecycle: any sequence of uploads, submits and polls, with any  *)
(* sequence of provider answers                                             *)

Upload ==
    \E filename \in Filenames :
        upload_video(filename) /\ UNCHANGED auxVars

Submit ==
    \E request \in Requests :
        transcribe_video(request) /\ UNCHANGED auxVars

Poll ==
    \E job_id \in PollIds :
        \/ PollNotFound(job_id) /\ UNCHANGED auxVars
        \/ PollProviderRaises(job_id) /\ UNCHANGED auxVars
        \/ PollAnswered(job_id) /\ UNCHANGED auxVars

Provider ==
    \E job_id \in JobIds :
        ProviderStep(job_id) /\ UNCHANGED auxVars

Next == Upload \/ Submit \/ Poll \/ Provider

Spec == Init /\ [][Next]_vars

----------------------------------------------------------------------------
(* The segmenter on its own: a word sequence within the bounds is built up  *)
(* word by word and then grouped once                                       *)

SegInit ==
    /\ RegistryInit
    /\ AuxInit
    /\ words = <<>>
    /\ segments = <<>>
    /\ segDone = FALSE

ReceiveWord ==
    /\ ~segDone
    /\ Len(words) < MaxWords
    /\ \E word \in Words :
           /\ MayFollow(words, word)
           /\ words' = Append(words, word)
    /\ UNCHANGED <<segments, segDone, registryVars, auxVars>>

RunSegmenter ==
    /\ ~segDone
    /\ segments' = segment(words)
    /\ segDone' = TRUE
    /\ UNCHANGED <<words, registryVars, auxVars>>

SegNext == ReceiveWord \/ RunSegmenter

SegSpec == SegInit /\ [][SegNext]_vars

----------------------------------------------------------------------------
(* Properties of the job lifecycle, checked under Spec *)

Terminal == {"completed", "error"}

\* the last step was a poll of a job the registry knows
PolledKnownJob ==
    lastOp.op = "poll" /\ lastOp.arg \in DOMAIN transcription_jobs

\* C1: once the stored status of a job is completed or error, no later poll
\* changes that stored status.
C1_TerminalStatusIsFinal ==
    [][ \A j \in DOMAIN transcription_jobs :
          (transcription_jobs[j].status \in Terminal /\ lastOp'.op = "poll")
          => transcription_jobs'[j].status = transcription_jobs[j].status ]_vars

\* C2: over any sequence of polls the grouping code runs at most once for
\* every job.
C2_SegmenterRunsAtMostOnce ==
    \A j \in JobIds : segmenterRuns[j] <= 1

\* C3: a submit whose video identifier is not in the upload store fails with
\* 404 NotFound, calls the provider not at all and leaves the registry as it
\* was.
C3_SubmitUnknownVideoIsNotFound ==
    [][ ( /\ lastOp'.op = "submit"
          /\ Truthy(lastOp'.arg.video_id)
          /\ lastOp'.arg.video_id \notin DOMAIN video_files )
        => ( /\ response'.code = 404
             /\ lastOp'.answer = "none"
             /\ transcription_jobs' = transcription_jobs
             /\ provider' = provider ) ]_vars

\* C4: a submit with neither a video identifier nor a URL fails with 400
\* InvalidRequest, calls the provider not at all and leaves the registry as
\* it was.
C4_SubmitWithoutSourceIsInvalid ==
    [][ ( /\ lastOp'.op = "submit"
          /\ lastOp'.arg.video_id \in {None, ""}
          /\ lastOp'.arg.video_url \in {None, ""} )
        => ( /\ response'.code = 400
             /\ lastOp'.answer = "none"
             /\ transcription_jobs' = transcription_jobs
             /\ provider' = provider ) ]_vars

C4_Witness ==
    /\ lastOp.op = "submit"
    /\ lastOp.arg.video_id \in {None, ""}
    /\ lastOp.arg.video_url = None
    /\ response.code = 400
    /\ DOMAIN transcription_jobs /= {}

\* C5: a poll with a job identifier that is no key of the registry fails with
\* 404 NotFound, does not query the provider and leaves the registry as it
\* was.
C5_PollUnknownJobIsNotFound ==
    [][ ( /\ lastOp'.op = "poll"
          /\ lastOp'.arg \notin DOMAIN transcription_jobs )
        => ( /\ response'.code = 404
             /\ lastOp'.answer = "none"
             /\ transcription_jobs' = transcription_jobs
             /\ provider' = provider
             /\ segmenterRuns' = segmenterRuns ) ]_vars

C5_Witness ==
    /\ lastOp.op = "poll"
    /\ lastOp.arg \notin DOMAIN transcription_jobs
    /\ response.code = 404
    /\ DOMAIN transcription_jobs /= {}

\* C6: a poll of a known job during which the provider reports neither
\* completed nor error returns status processing without a CaptionFile and
\* leaves the stored status of the job as it was before the poll.
C6_ProcessingPollKeepsStoredStatus ==
    [][ ( /\ lastOp'.op = "poll"
          /\ lastOp'.arg \in DOMAIN transcription_jobs
          /\ lastOp'.answer \in {"queued", "processing"} )
        => ( /\ response'.code = 200
             /\ response'.status = "processing"
             /\ ~response'.captions.present
             /\ transcription_jobs'[lastOp'.arg].status =
                    transcription_jobs[lastOp'.arg].status ) ]_vars

\* a processing poll of a job that an earlier poll stored as completed
C6_Witness ==
    /\ PolledKnownJob
    /\ lastOp.answer = "processing"
    /\ response.status = "processing"
    /\ transcription_jobs[lastOp.arg].status = "completed"

\* C7: right after a poll that returns status completed the stored status of
\* the job is completed, and right after a poll in which the provider reports
\* failure the stored status is error and the response has status error.
C7_PollStoresTerminalStatus ==
    PolledKnownJob =>
        /\ response.status = "completed"
           => transcription_jobs[lastOp.arg].status = "completed"
        /\ lastOp.answer = "error"
           => /\ transcription_jobs[lastOp.arg].status = "error"
              /\ response.code = 200
              /\ response.status = "error"

\* a poll that found the provider's failure for a job stored as completed
C7_Witness ==
    /\ PolledKnownJob
    /\ lastOp.answer = "error"
    /\ response.status = "error"
    /\ segmenterRuns[lastOp.arg] >= 1

\* C8: a poll of a known job during which the provider's status call raises
\* does not propagate the exception: it returns a response with status error
\* for that job.
C8_PollAbsorbsProviderException ==
    (PolledKnownJob /\ lastOp.answer = "raised")
    => /\ response.code = 200
       /\ response.status = "error"
       /\ response.job_id = lastOp.arg

C8_Witness ==
    /\ PolledKnownJob
    /\ lastOp.answer = "raised"
    /\ response.status = "error"

----------------------------------------------------------------------------
(* Properties of the segmenter, checked under SegSpec *)

\* start <= end for every word, and start times do not decrease
WellFormedWords(ws) ==
    /\ \A i \in 1 .. Len(ws) : ws[i].start <= ws[i].end
    /\ \A i \in 1 .. Len(ws) - 1 : ws[i].start <= ws[i + 1].start

TextsOf(items) == [k \in 1 .. Len(items) |-> items[k].text]

\* C9: for every non-empty word sequence the segmenter emits at least one
\* segment, and the segments' texts joined with single spaces are the words'
\* texts joined with single spaces.
C9_SegmentsKeepEveryWord ==
    (segDone /\ Len(words) > 0)
    => /\ Len(segments) >= 1
       /\ JoinWithSpace(TextsOf(segments)) = JoinWithSpace(TextsOf(words))

\* two words grouped into one segment
C9_Witness ==
    /\ segDone
    /\ Len(words) = 2
    /\ Len(segments) = 1
    /\ segments[1].text = words[1].text \o <<" ">> \o words[2].text

\* C10 as stated: every emitted segment spans at most 5.0 seconds unless it
\* consists of exactly one word whose own duration exceeds 5.0 seconds.
C10_SegmentSpansAtMostFiveSeconds ==
    (segDone /\ WellFormedWords(words))
    => \A k \in 1 .. Len(segments) :
         LET g == Groups(words)[k]
         IN  \/ segments[k].end_time - segments[k].start_time
                  <= SegmentMaxSeconds
             \/ /\ g.first = g.last
                /\ ToSeconds(words[g.first].end)
                     - ToSeconds(words[g.first].start) > SegmentMaxSeconds

\* C10 amended: in every emitted segment each word before the last ends less
\* than 5.0 seconds after the segment's start_time; only the last word of a
\* segment, whether or not it is the only one, can carry the segment past
\* 5.0 seconds.
C10_OnlyLastWordPassesFiveSeconds ==
    (segDone /\ WellFormedWords(words))
    => \A k \in 1 .. Len(segments) :
         LET g == Groups(words)[k]
         IN  \A i \in g.first .. g.last - 1 :
               ToSeconds(words[i].end) - segments[k].start_time
                 < SegmentMaxSeconds

\* a segment of two words that spans more than 5.0 seconds
C10_Witness ==
    /\ segDone
    /\ Len(words) = 2
    /\ Len(segments) = 1
    /\ segments[1].end_time - segments[1].start_time > SegmentMaxSeconds

\* no word's text ends with '.', '!' or '?'
NoTerminalPunctuation(ws) ==
    \A i \in 1 .. Len(ws) :
        Len(ws[i].text) = 0
        \/ ws[i].text[Len(ws[i].text)] \notin {".", "!", "?"}

\* the last word's end minus the first word's start, in milliseconds
TotalSpan(ws) == ws[Len(ws)].end - ws[1].start

\* the case of C11: no terminal punctuation and a total span of 6000 ms
SpansSixSeconds ==
    /\ segDone
    /\ Len(words) > 0
    /\ NoTerminalPunctuation(words)
    /\ TotalSpan(words) = 6 * MsPerSecond

EndsNonDecreasing(ws) ==
    \A i \in 1 .. Len(ws) - 1 : ws[i].end <= ws[i + 1].end

\* C12 as stated: for well-formed words each segment's end_time is at most
\* the end_time of the segment emitted after it.
C12_SegmentEndsNonDecreasing ==
    (segDone /\ WellFormedWords(words))
    => \A k \in 1 .. Len(segments) - 1 :
         segments[k].end_time <= segments[k + 1].end_time

\* C12 amended: every segment's end_time is the end of its last word, so the
\* segments' end times are non-decreasing when the words' end times are.
C12_SegmentEndsFollowWordEnds ==
    (segDone /\ WellFormedWords(words))
    => /\ \A k \in 1 .. Len(segments) :
            segments[k].end_time = ToSeconds(words[Groups(words)[k].last].end)
       /\ EndsNonDecreasing(words)
          => \A k \in 1 .. Len(segments) - 1 :
               segments[k].end_time <= segments[k + 1].end_time

\* two segments with different end times from words whose ends do not decrease
C12_Witness ==
    /\ segDone
    /\ WellFormedWords(words)
    /\ EndsNonDecreasing(words)
    /\ Len(segments) = 2
    /\ segments[1].end_time < segments[2].end_time

\* no word starts before the word in front of it has ended
WordsDisjoint(ws) ==
    \A i \in 1 .. Len(ws) - 1 : ws[i].end <= ws[i + 1].start

\* only the word at the last position equals the last word
NoEarlierCopyOfLast(ws) ==
    \A i \in 1 .. Len(ws) - 1 : ws[i] /= ws[Len(ws)]

\* C13 as stated: for well-formed words the segments are ordered by
\* start_time and each segment's end_time is at most the start_time of the
\* segment emitted after it.  It is stated here for the word sequences in
\* which no earlier word equals the last one, where the forced close of
\* captions.py:225 acts at the last position only.
C13_SegmentsOrderedAndDisjoint ==
    (segDone /\ WellFormedWords(words) /\ NoEarlierCopyOfLast(words))
    => \A k \in 1 .. Len(segments) - 1 :
         /\ segments[k].start_time <= segments[k + 1].start_time
         /\ segments[k].end_time <= segments[k + 1].start_time

\* C13 amended: for well-formed words the segments are ordered by
\* start_time; they do not overlap when the words do not overlap.
C13_SegmentsOrderedDisjointIfWordsAre ==
    (segDone /\ WellFormedWords(words))
    => /\ \A k \in 1 .. Len(segments) - 1 :
            segments[k].start_time <= segments[k + 1].start_time
       /\ WordsDisjoint(words)
          => \A k \in 1 .. Len(segments) - 1 :
               segments[k].end_time <= segments[k + 1].start_time

\* two segments, one after the other, from words that do not overlap
C13_Witness ==
    /\ segDone
    /\ WellFormedWords(words)
    /\ WordsDisjoint(words)
    /\ Len(segments) = 2
    /\ segments[1].start_time < segments[1].end_time
    /\ segments[1].end_time <= segments[2].start_time

\* C14: for well-formed words every emitted segment has
\* start_time <= end_time.
C14_SegmentStartsBeforeItEnds ==
    (segDone /\ WellFormedWords(words))
    => \A k \in 1 .. Len(segments) :
         segments[k].start_time <= segments[k].end_time

\* a segment of two words whose second word ends before the first one does
C14_Witness ==
    /\ segDone
    /\ WellFormedWords(words)
    /\ Len(words) = 2
    /\ Len(segments) = 1
    /\ words[2].end < words[1].end
    /\ segments[1].start_time < segments[1].end_time

\* the segment is closed after the word at position i
ClosedAfter(ws, i) == \E k \in 1 .. Len(Groups(ws)) : Groups(ws)[k].last = i

\* the start_time of the segment that holds the word at position i
StartOfSegmentAt(ws, i) ==
    LET k == CHOOSE n \in 1 .. Len(Groups(ws)) :
                 Groups(ws)[n].first <= i /\ i <= Groups(ws)[n].last
    IN  Groups(ws)[k].segment.start_time

\* C15: the segment is closed after the word at position i exactly if the
\* word's text ends with '.', '!' or '?', or the word ends at least 5.0
\* seconds after the segment's start, or i is the last position; an earlier
\* word that equals the last word does not close a segment for that reason.
C15_ClosedExactlyOnPunctuationDurationOrLastPosition ==
    segDone
    => \A i \in 1 .. Len(words) :
         ClosedAfter(words, i)
         <=> \/ ~NoTerminalPunctuation(<<words[i]>>)
             \/ ToSeconds(words[i].end) - StartOfSegmentAt(words, i)
                  >= SegmentMaxSeconds
             \/ i = Len(words)

----------------------------------------------------------------------------
(* Further properties of the job lifecycle, checked under Spec *)

\* C16: a successful submit adds exactly one entry to the registry, keyed by
\* the identifier the provider returned and with stored status processing,
\* returns that identifier, and leaves every other entry as it was.
C16_SubmitAddsOneProcessingEntry ==
    [][ (lastOp'.op = "submit" /\ response'.code = 200)
        => LET job_id == lastOp'.answer
           IN  /\ response'.job_id = job_id
               /\ response'.status = "processing"
               /\ job_id \notin DOMAIN transcription_jobs
               /\ DOMAIN transcription_jobs' =
                      DOMAIN transcription_jobs \cup {job_id}
               /\ transcription_jobs'[job_id].status = "processing"
               /\ \A other \in DOMAIN transcription_jobs :
                      transcription_jobs'[other] = transcription_jobs[other]
      ]_vars

\* a second job was submitted while the first one is stored as completed
C16_Witness ==
    /\ lastOp.op = "submit"
    /\ response.code = 200
    /\ Cardinality(DOMAIN transcription_jobs) = 2
    /\ transcription_jobs[response.job_id].status = "processing"
    /\ \E other \in DOMAIN transcription_jobs :
           transcription_jobs[other].status = "completed"

\* C19: a poll during which the provider's status call raises leaves the
\* whole registry as it was: the response has status error and the stored
\* status of the job keeps its value.
C19_RaisingPollLeavesRegistry ==
    [][ (lastOp'.op = "poll" /\ lastOp'.answer = "raised")
        => /\ response'.status = "error"
           /\ transcription_jobs' = transcription_jobs ]_vars

\* the response says error while the job is stored as completed
C19_Witness ==
    /\ PolledKnownJob
    /\ lastOp.answer = "raised"
    /\ response.status = "error"
    /\ transcription_jobs[lastOp.arg].status = "completed"

----------------------------------------------------------------------------
(* The poll that short-circuits on a stored terminal status and returns the *)
(* cached result (spec, sections 3 and 9).  It is no code of the            *)
(* repository: it keeps its own registry, cached_jobs, beside the one of    *)
(* get_transcription_result, and both are run on the same calls.            *)

\* a registry entry of the short-circuiting poll: the stored status and the
\* response cached with a terminal status
CachedJob(status, result) == [status |-> status, result |-> result]

NoResult == Response(0, None, None, NoCaptions, "")

\* the response of the short-circuiting poll for a job it stores as
\* processing, from the provider's answer
FreshResponse(job_id, answer) ==
    CASE answer.status = "completed" ->
           Response(200, "completed", job_id,
                    CaptionFile(segment(answer.words)),
                    "Transcription completed successfully")
      [] answer.status = "error" ->
           Response(200, "error", job_id, NoCaptions, "Transcription failed")
      [] OTHER ->
           Response(200, "processing", job_id, NoCaptions,
                    "Transcription is still in progress")

ShortCircuitPoll(job_id) ==
    IF job_id \notin DOMAIN cached_jobs
    THEN /\ cached_response' = Response(404, None, None, NoCaptions,
                                        "Transcription job not found")
         /\ UNCHANGED cached_jobs
    ELSE IF cached_jobs[job_id].status \in {"completed", "error"}
    THEN /\ cached_response' = cached_jobs[job_id].result
         /\ UNCHANGED cached_jobs
    ELSE LET answer == provider[job_id]
             fresh  == FreshResponse(job_id, answer)
         IN  /\ cached_response' = fresh
             /\ cached_jobs' =
                    IF answer.status \in {"completed", "error"}
                    THEN [cached_jobs EXCEPT
                            ![job_id] = CachedJob(answer.status, fresh)]
                    ELSE cached_jobs

\* submit is the same for both: the new job is entered as processing
ShortCircuitSubmit ==
    /\ cached_response' = response'
    /\ cached_jobs' =
           IF response'.code = 200
           THEN (response'.job_id :> CachedJob("processing", NoResult))
                @@ cached_jobs
           ELSE cached_jobs

----------------------------------------------------------------------------
(* The job lifecycle with a provider whose answer for a job, once completed *)
(* or error, stays as it is, and whose status call does not raise           *)

StableUpload == Upload

StableSubmit ==
    \E request \in Requests :
        /\ transcribe_video(request)
        /\ ShortCircuitSubmit
        /\ UNCHANGED pending_polls

StablePollOf(job_id) ==
    \/ PollNotFound(job_id) /\ ShortCircuitPoll(job_id)
          /\ UNCHANGED pending_polls
    \/ PollAnswered(job_id) /\ ShortCircuitPoll(job_id)
          /\ UNCHANGED pending_polls

StablePoll == \E job_id \in PollIds : StablePollOf(job_id)

StableProvider ==
    \E job_id \in JobIds :
        /\ job_id \in DOMAIN provider
        /\ provider[job_id].status \notin {"completed", "error"}
        /\ ProviderStep(job_id)
        /\ UNCHANGED auxVars

StableNext == StableUpload \/ StableSubmit \/ StablePoll \/ StableProvider

StableSpec == Init /\ [][StableNext]_vars

\* C17: with a provider whose terminal answers stay and whose status call
\* does not raise, the poll that short-circuits on a stored terminal status
\* gives, after every submit and poll, the same response and the same stored
\* statuses as get_transcription_result.
C17_ShortCircuitPollIsEquivalent ==
    /\ DOMAIN cached_jobs = DOMAIN transcription_jobs
    /\ \A job_id \in DOMAIN transcription_jobs :
           cached_jobs[job_id].status = transcription_jobs[job_id].status
    /\ lastOp.op \in {"submit", "poll"} => cached_response = response

\* a poll answered from the cache, equal to the response computed anew
C17_Witness ==
    /\ PolledKnownJob
    /\ segmenterRuns[lastOp.arg] >= 2
    /\ cached_response = response
    /\ response.status = "completed"
    /\ Len(response.captions.segments) >= 2

----------------------------------------------------------------------------
(* Fair polling: the client polls every job again and again, so a poll that *)
(* would change the state is not put off forever                            *)

FairPolling == \A job_id \in JobIds : WF_vars(StablePollOf(job_id))

\* the submits of a remote URL
UrlSubmit ==
    \E request \in Requests :
        /\ request.video_id = None
        /\ request.video_url = VideoUrl
        /\ transcribe_video(request)
        /\ ShortCircuitSubmit
        /\ UNCHANGED pending_polls

LiveNext == UrlSubmit \/ StablePoll \/ StableProvider

LiveSpec == Init /\ [][LiveNext]_vars /\ FairPolling

ProviderReports(job_id, status) ==
    job_id \in DOMAIN provider /\ provider[job_id].status = status

Stored(job_id, status) ==
    job_id \in DOMAIN transcription_jobs
    /\ transcription_jobs[job_id].status = status

\* C18: when the provider reports completed or error for a submitted job and
\* keeps reporting it, and the client keeps polling the job, the stored
\* status of the job becomes that status at last; and the stored status of a
\* job changes in no step but a poll of that job.
C18_FairPollingReachesTerminalStatus ==
    /\ \A job_id \in JobIds : \A status \in {"completed", "error"} :
           ProviderReports(job_id, status) ~> Stored(job_id, status)
    /\ [][ \A job_id \in DOMAIN transcription_jobs :
             transcription_jobs'[job_id].status
                 /= transcription_jobs[job_id].status
             => (lastOp'.op = "poll" /\ lastOp'.arg = job_id) ]_vars

\* the poll that stored the failure the provider reports for the second job
C18_Witness ==
    /\ PolledKnownJob
    /\ Cardinality(DOMAIN transcription_jobs) = 2
    /\ ProviderReports(lastOp.arg, "error")
    /\ Stored(lastOp.arg, "error")
    /\ \E other \in DOMAIN transcription_jobs : Stored(other, "completed")

----------------------------------------------------------------------------
(* Polls that interleave: the provider query of a poll (captions.py:190-202)*)
(* and its branches with the registry write (captions.py:204-266) are two   *)
(* steps, and other polls of the same job may run between them              *)

Clients == {"c1", "c2"}

\* captions.py:190-202: the job is known and the provider is asked
PollQuery(client, job_id) ==
    /\ client \notin DOMAIN pending_polls
    /\ ~PollUnknown(job_id)
    /\ pending_polls' =
           (client :> [job_id |-> job_id, answer |-> provider[job_id]])
           @@ pending_polls
    /\ lastOp' = Op("query", job_id, "none")
    /\ UNCHANGED <<video_files, transcription_jobs, provider, response,
                   segmenterRuns, segVars, cachedVars>>

\* captions.py:204-266, on the answer the poll got earlier
PollWrite(client) ==
    /\ client \in DOMAIN pending_polls
    /\ PollBranches(pending_polls[client].job_id, pending_polls[client].answer)
    /\ pending_polls' =
           [c \in DOMAIN pending_polls \ {client} |-> pending_polls[c]]
    /\ UNCHANGED <<video_files, provider, segVars, cachedVars>>

\* the submit of the one job whose polls interleave
ConcSubmit ==
    \E request \in Requests :
        /\ request.video_id = None
        /\ request.video_url = VideoUrl
        /\ DOMAIN transcription_jobs = {}
        /\ transcribe_video(request)
        /\ UNCHANGED auxVars

ConcQuery == \E client \in Clients : \E job_id \in JobIds :
                 PollQuery(client, job_id)

ConcWrite == \E client \in Clients : PollWrite(client)

ConcNext == ConcSubmit \/ Provider \/ ConcQuery \/ ConcWrite

ConcSpec == Init /\ [][ConcNext]_vars

\* C20: a poll writes the status processing into no registry entry and adds
\* or removes no registry key; under every interleaving of polls of the same
\* job a job stored as completed or error is not set back to processing.
C20_PollNeverWritesProcessing ==
    [][ lastOp'.op \in {"query", "poll"}
        => /\ DOMAIN transcription_jobs' = DOMAIN transcription_jobs
           /\ \A job_id \in DOMAIN transcription_jobs :
                  transcription_jobs'[job_id].status = "processing"
                  => transcription_jobs[job_id].status = "processing" ]_vars

\* a poll wrote on an answer older than the stored status: it was answered
\* processing, another poll of the job stored completed in between, and
\* a third poll of the job is still under way
C20_Witness ==
    /\ lastOp.op = "poll"
    /\ lastOp.answer = "processing"
    /\ Stored(lastOp.arg, "completed")
    /\ ProviderReports(lastOp.arg, "completed")
    /\ \E client \in DOMAIN pending_polls :
           pending_polls[client].job_id = lastOp.arg

====
